---- MODULE Spec2Model ----
(***************************************************************************)
(* A model of ozstar-jobsummary's JobSummary (src/src/summary.py): the     *)
(* resolution of a user-supplied job identifier, the construction of the   *)
(* summary from the accounting record and the optional metrics gateway,    *)
(* the warnings, and the framed text report.                               *)
(*                                                                         *)
(* Conventions.  A Python string that the code inspects character by       *)
(* character (the job identifier) is a sequence of one-character strings.  *)
(* A string that is only measured, padded and concatenated (a report line) *)
(* is a TLA+ string.  An Optional value is a sequence of length 0 (None)   *)
(* or 1.  A number that the code obtains by true division is an exact      *)
(* fraction [n, d] with d > 0.  An exception ends the run with pc =        *)
(* "failed" and its class name in fault.                                   *)
(***************************************************************************)
EXTENDS Integers, Sequences, FiniteSets, TLC

VARIABLES
    pc,            \* position of the run
    job_id,        \* the user-supplied identifier, str(job_id)
    influxquery,   \* TRUE when a metrics gateway was passed to __init__
    calls,         \* the external calls issued so far, in order
    reads,         \* <<field, source>> pairs: which source each derived field consulted
    jobs,          \* Optional result of the array-base lookup (local of get_raw_id)
    raw_id,        \* Optional accounting id returned by get_raw_id
    fault,         \* "none" or the class of the exception that ended the run
    db_data,       \* Optional job record returned by pyslurm.db.Job.load
    influxid,      \* the id handed to every metrics query
    finished,      \* self.finished
    summary_data,  \* self.summary_data
    lustre_data,   \* Optional nested result of influxquery.get_lustre_jobstats
    lines,         \* content lines of the report (local of get_full_summary)
    report         \* the lines of the string returned by get_full_summary

vars == <<pc, job_id, influxquery, calls, reads, jobs, raw_id, fault, db_data,
          influxid, finished, summary_data, lustre_data, lines, report>>

----------------------------------------------------------------------------
(* Bounds *)

MaxIdLen == 3      \* longest identifier string explored by SpecRawId
MaxJobs == 2       \* most records an array-base lookup returns
MaxRawId == 2      \* accounting ids are 1..MaxRawId
MaxTask == 1       \* array task ids are 0..MaxTask
MaxNodes == 2      \* node counts are 0..MaxNodes
MaxMemory == 2     \* requested memory is 0..MaxMemory MB
MaxSteps == 2      \* most execution steps of a job record
MaxSamples == 2    \* most samples of one filesystem statistic

----------------------------------------------------------------------------
(* Optional values and Python text primitives *)

None == <<>>
Some(v) == <<v>>
IsNone(o) == o = <<>>
Val(o) == o[1]

Digits == {"0", "1"}
IdChars == Digits \cup {"_", "+", "a"}

DigitValue(c) == IF c = "0" THEN 0 ELSE 1

DigitChar(n) == <<"0", "1", "2", "3", "4", "5", "6", "7", "8", "9">>[n + 1]

Range(s) == {s[i] : i \in 1..Len(s)}

\* c in s
Contains(s, c) == \E i \in 1..Len(s) : s[i] = c

\* s.split(c): the pieces of s between the occurrences of c
RECURSIVE Split(_, _)
Split(s, c) ==
    IF ~Contains(s, c) THEN <<s>>
    ELSE LET i == CHOOSE k \in 1..Len(s) :
                      s[k] = c /\ \A j \in 1..(k - 1) : s[j] # c
         IN <<SubSeq(s, 1, i - 1)>> \o Split(SubSeq(s, i + 1, Len(s)), c)

\* s.isdigit()
IsDigit(s) == Len(s) > 0 /\ \A i \in 1..Len(s) : s[i] \in Digits

\* the digits of s after an optional sign, as int() reads them
Unsigned(s) == IF Len(s) > 0 /\ s[1] = "+" THEN Tail(s) ELSE s

\* int(s) returns (rather than raising ValueError)
IntParses(s) == IsDigit(Unsigned(s))

RECURSIVE DecimalValue(_)
DecimalValue(s) ==
    IF s = <<>> THEN 0
    ELSE 10 * DecimalValue(SubSeq(s, 1, Len(s) - 1)) + DigitValue(s[Len(s)])

\* int(s), for a string int() accepts
IntOf(s) == DecimalValue(Unsigned(s))

\* str(n) for n >= 0
RECURSIVE StrOfNat(_)
StrOfNat(n) ==
    IF n < 10 THEN <<DigitChar(n)>>
    ELSE StrOfNat(n \div 10) \o <<DigitChar(n % 10)>>

----------------------------------------------------------------------------
(* get_raw_id *)

TaskIds == 0..MaxTask
RawIds == 1..MaxRawId

\* what the array-base lookup can return: records keyed by distinct ids,
\* in the order jobs.values() yields them
ArrayJob == [id : RawIds, array_task_id : {None} \cup {Some(t) : t \in TaskIds}]

JobLists ==
    {js \in UNION {[1..n -> ArrayJob] : n \in 0..MaxJobs} :
        \A i, j \in 1..Len(js) : i # j => js[i].id # js[j].id}

\* a scan that forgets to compare the task id
MatchingIdAnyTask(js, task) ==
    IF js = <<>> THEN None ELSE Some(js[Len(js)].id)

\* the for loop of lines 169-171: the last record whose task id matches wins
RECURSIVE MatchingId(_, _)
MatchingId(js, task) ==
    IF js = <<>> THEN None
    ELSE LET last == js[Len(js)]
         IN IF last.array_task_id = Some(task) THEN Some(last.id)
            ELSE MatchingId(SubSeq(js, 1, Len(js) - 1), task)

Fail(exc) ==
    /\ pc' = "failed"
    /\ fault' = exc

Resolved(id) ==
    /\ pc' = "resolved"
    /\ raw_id' = Some(id)
    /\ fault' = fault

\* the array branch: split, look the array base up, scan for the task
GetRawIdArray ==
    /\ pc = "start"
    /\ Contains(job_id, "_")
    /\ LET parts == Split(job_id, "_")
       IN IF Len(parts) # 2
          THEN \* unpacking into (array_id, task_id) raises before any lookup
               /\ Fail("ValueError")
               /\ UNCHANGED <<calls, jobs, raw_id>>
          ELSE \E js \in JobLists :
               /\ calls' = Append(calls, "Jobs.load")
               /\ jobs' = Some(js)
               /\ IF js # <<>> /\ ~IntParses(parts[2])
                  THEN Fail("ValueError") /\ UNCHANGED raw_id
                  ELSE LET found == IF js = <<>> THEN None
                                    ELSE MatchingId(js, IntOf(parts[2]))
                       IN IF IsNone(found)
                          THEN Fail("KeyError") /\ UNCHANGED raw_id
                          ELSE Resolved(Val(found))
    /\ UNCHANGED <<job_id, influxquery, reads, db_data, influxid, finished,
                   summary_data, lustre_data, lines, report>>

\* the heterogeneous branch: base + offset
GetRawIdHet ==
    /\ pc = "start"
    /\ ~Contains(job_id, "_")
    /\ Contains(job_id, "+")
    /\ LET parts == Split(job_id, "+")
       IN IF Len(parts) # 2 \/ ~IntParses(parts[1]) \/ ~IntParses(parts[2])
          THEN Fail("ValueError") /\ UNCHANGED raw_id
          ELSE Resolved(IntOf(parts[1]) + IntOf(parts[2]))
    /\ UNCHANGED <<job_id, influxquery, calls, reads, jobs, db_data, influxid,
                   finished, summary_data, lustre_data, lines, report>>

\* the standard branch: the number itself
GetRawIdStandard ==
    /\ pc = "start"
    /\ ~Contains(job_id, "_")
    /\ ~Contains(job_id, "+")
    /\ IsDigit(job_id)
    /\ Resolved(IntOf(job_id))
    /\ UNCHANGED <<job_id, influxquery, calls, reads, jobs, db_data, influxid,
                   finished, summary_data, lustre_data, lines, report>>

\* no branch applies: raw_id stays None and KeyError is raised
GetRawIdNoMatch ==
    /\ pc = "start"
    /\ ~Contains(job_id, "_")
    /\ ~Contains(job_id, "+")
    /\ ~IsDigit(job_id)
    /\ Fail("KeyError")
    /\ UNCHANGED <<job_id, influxquery, calls, reads, jobs, raw_id, db_data,
                   influxid, finished, summary_data, lustre_data, lines, report>>

get_raw_id ==
    \/ GetRawIdArray
    \/ GetRawIdHet
    \/ GetRawIdStandard
    \/ GetRawIdNoMatch

----------------------------------------------------------------------------
(* Numbers.  Python's true division is modelled exactly: within the model's *)
(* ranges the float results compare with 0.5 and 75.0 as the fractions do.  *)

Frac(n, d) == [n |-> n, d |-> d]
FracLess(a, b) == a.n * b.d < b.n * a.d
FracIsZero(a) == a.n = 0
\* a / b for b # 0
FracDiv(a, b) == Frac(a.n * b.d, a.d * b.n)

MiB == 1024 * 1024

RECURSIVE Sum(_)
Sum(s) == IF s = <<>> THEN 0 ELSE Head(s) + Sum(Tail(s))

----------------------------------------------------------------------------
(* The accounting record and the metrics gateway (external collaborators)  *)

UNFINISHED_STATES == {"PENDING", "RUNNING", "REQUEUED", "RESIZING", "SUSPENDED"}

States == UNFINISHED_STATES \cup {"COMPLETED", "CANCELLED"}

\* the user CPU times of the steps of a record, each from Times
StepLists(Times) == UNION {[1..n -> Times] : n \in 0..MaxSteps}

----------------------------------------------------------------------------
(* JobSummary.__init__ *)

\* lines 16-19
InfluxId(db, jid) ==
    IF /\ ~IsNone(db.array_id) /\ Val(db.array_id) # 0
       /\ ~IsNone(db.array_task_id) /\ Val(db.array_task_id) # 0
    THEN StrOfNat(Val(db.array_id)) \o <<"_">> \o StrOfNat(Val(db.array_task_id))
    ELSE jid

\* a state list that lacks SUSPENDED
IsFinishedWithoutSuspended(db) ==
    db.state \notin (UNFINISHED_STATES \ {"SUSPENDED"})

\* line 21
IsFinished(db) == db.state \notin UNFINISHED_STATES

get_req_mem_bytes(db) ==
    IF db.num_nodes = 0 THEN Frac(0, 1)
    ELSE Frac(db.memory * MiB, db.num_nodes)

get_elapsed_time_seconds(db) ==
    IF ~IsNone(db.elapsed_time) THEN Val(db.elapsed_time) ELSE 0

get_time_limit_seconds(db) == db.time_limit * 60

\* the finished branch of get_user_cpu_percentage
StatsCpuPercentage(db) ==
    IF db.elapsed_cpu_time = 0 THEN Frac(0, 1)
    ELSE Frac(Sum(db.steps) * 100, db.elapsed_cpu_time)

\* lines 14-22: fetch the record, derive influxid and finished
JobLoad(Records) ==
    /\ pc = "resolved"
    /\ calls' = Append(calls, "Job.load")
    /\ \/ /\ Fail("RPCError")
          /\ UNCHANGED <<db_data, influxid, finished, summary_data>>
       \/ \E db \in Records :
          /\ db_data' = Some(db)
          /\ influxid' = InfluxId(db, job_id)
          /\ finished' = IsFinished(db)
          /\ summary_data' = [summary_data EXCEPT !.state = Some(db.state)]
          /\ pc' = "loaded"
          /\ fault' = fault
    /\ jobs' = None    \* get_raw_id has returned: its local is gone
    /\ UNCHANGED <<job_id, influxquery, reads, raw_id, lustre_data, lines, report>>

\* lines 26-27: get_req_mem_bytes, then get_max_mem_bytes
GetMaxMemBytes(Answers) ==
    /\ pc = "loaded"
    /\ LET db == Val(db_data)
           req == Some(get_req_mem_bytes(db))
       IN IF finished
          THEN /\ summary_data' = [summary_data EXCEPT
                       !.req_mem = req,
                       !.max_mem = Some(Frac(db.max_resident_memory, 1))]
               /\ reads' = reads \cup {<<"max_mem", "stats">>}
               /\ calls' = calls
          ELSE IF influxquery
          THEN \E m \in Answers :
               /\ summary_data' = [summary_data EXCEPT
                       !.req_mem = req, !.max_mem = m]
               /\ reads' = reads \cup {<<"max_mem", "gateway">>}
               /\ calls' = Append(calls, "get_max_mem")
          ELSE /\ summary_data' = [summary_data EXCEPT
                       !.req_mem = req, !.max_mem = None]
               /\ UNCHANGED <<reads, calls>>
    /\ pc' = "max_mem"
    /\ UNCHANGED <<job_id, influxquery, jobs, raw_id, fault, db_data, influxid,
                   finished, lustre_data, lines, report>>

\* lines 28-30: the two times, then get_user_cpu_percentage
GetUserCpuPercentage(Answers) ==
    /\ pc = "max_mem"
    /\ LET db == Val(db_data)
           el == Some(get_elapsed_time_seconds(db))
           tl == Some(get_time_limit_seconds(db))
       IN IF finished
          THEN /\ summary_data' = [summary_data EXCEPT
                       !.elapsed_time = el, !.time_limit = tl,
                       !.avg_cpu = Some(StatsCpuPercentage(db))]
               /\ reads' = reads \cup {<<"avg_cpu", "stats">>}
               /\ calls' = calls
          ELSE IF influxquery
          THEN \E c \in Answers :
               /\ summary_data' = [summary_data EXCEPT
                       !.elapsed_time = el, !.time_limit = tl, !.avg_cpu = c]
               /\ reads' = reads \cup {<<"avg_cpu", "gateway">>}
               /\ calls' = Append(calls, "get_avg_cpu")
          ELSE /\ summary_data' = [summary_data EXCEPT
                       !.elapsed_time = el, !.time_limit = tl, !.avg_cpu = None]
               /\ UNCHANGED <<reads, calls>>
    /\ pc' = "avg_cpu"
    /\ UNCHANGED <<job_id, influxquery, jobs, raw_id, fault, db_data, influxid,
                   finished, lustre_data, lines, report>>

----------------------------------------------------------------------------
(* get_lustre_stats *)

\* the filesystems of the fs_names table (lines 195-200) the model follows
FsNames == {"dagg", "home"}
OssFields == {"read_bytes", "write_bytes"}
MdsFields == {"iops"}

SampleSeqs == UNION {[1..n -> {1, 2}] : n \in 0..MaxSamples}

\* a field's dict: with a "value" list of samples, or without that key
FieldDicts == {[time |-> <<>>]} \cup {[value |-> v] : v \in SampleSeqs}

\* a server role's dict: any subset of its fields
RoleDicts(Fields) == UNION {[F -> FieldDicts] : F \in SUBSET Fields}

\* a filesystem's dict: any subset of the two server roles
FsDicts ==
    {[oss |-> o, mds |-> m] : o \in RoleDicts(OssFields), m \in RoleDicts(MdsFields)}
    \cup {[oss |-> o] : o \in RoleDicts(OssFields)}
    \cup {[mds |-> m] : m \in RoleDicts(MdsFields)}
    \cup {[other |-> <<>>]}

\* try: data[fs][server][field]["value"] raises KeyError
KeyMissing(data, fs, server, field) ==
    \/ fs \notin DOMAIN data
    \/ server \notin DOMAIN data[fs]
    \/ field \notin DOMAIN data[fs][server]
    \/ "value" \notin DOMAIN data[fs][server][field]

\* [-1] of an empty list raises IndexError, which the except clause lets through
LastValueFaults(data, fs, server, field) ==
    /\ ~KeyMissing(data, fs, server, field)
    /\ data[fs][server][field]["value"] = <<>>

\* get_last_value, when it returns
get_last_value(data, fs, server, field) ==
    IF KeyMissing(data, fs, server, field) THEN 0
    ELSE LET v == data[fs][server][field]["value"] IN v[Len(v)]

LustreFaults(data) ==
    \E fs \in DOMAIN data :
        \/ LastValueFaults(data, fs, "oss", "read_bytes")
        \/ LastValueFaults(data, fs, "oss", "write_bytes")
        \/ LastValueFaults(data, fs, "mds", "iops")

\* lines 121-130
LustreStats(data) ==
    [fs \in DOMAIN data |->
        [total_read |-> get_last_value(data, fs, "oss", "read_bytes"),
         total_write |-> get_last_value(data, fs, "oss", "write_bytes"),
         total_iops |-> get_last_value(data, fs, "mds", "iops")]]

\* line 31: get_lustre_stats, the gateway answering from Results
GetLustreStats(Results) ==
    /\ pc = "avg_cpu"
    /\ IF ~influxquery
       THEN /\ summary_data' = [summary_data EXCEPT !.lustre_stats = None]
            /\ pc' = "lustre"
            /\ UNCHANGED <<calls, lustre_data, fault>>
       ELSE \E data \in Results :
            /\ calls' = Append(calls, "get_lustre_jobstats")
            /\ lustre_data' = Some(data)
            /\ IF LustreFaults(data)
               THEN Fail("IndexError") /\ UNCHANGED summary_data
               ELSE /\ summary_data' =
                        [summary_data EXCEPT !.lustre_stats = Some(LustreStats(data))]
                    /\ pc' = "lustre"
                    /\ fault' = fault
    /\ UNCHANGED <<job_id, influxquery, reads, jobs, raw_id, db_data, influxid,
                   finished, lines, report>>

----------------------------------------------------------------------------
(* get_warnings *)

\* max_mem / req_mem divides by zero
WarningsFault(sd) ==
    ~IsNone(sd.max_mem) /\ ~IsNone(sd.req_mem) /\ FracIsZero(Val(sd.req_mem))

\* thresholds that include their boundary
get_warnings_inclusive(sd) ==
    (IF /\ ~IsNone(sd.max_mem)
        /\ ~IsNone(sd.req_mem)
        /\ ~FracLess(Frac(1, 2), FracDiv(Val(sd.max_mem), Val(sd.req_mem)))
     THEN <<"Too much memory requested">> ELSE <<>>)
    \o
    (IF ~IsNone(sd.avg_cpu) /\ ~FracLess(Frac(75, 1), Val(sd.avg_cpu))
     THEN <<"CPU usage is low">> ELSE <<>>)

\* the list get_warnings returns, when it returns
get_warnings(sd) ==
    (IF /\ ~IsNone(sd.max_mem)
        /\ ~IsNone(sd.req_mem)
        /\ FracLess(FracDiv(Val(sd.max_mem), Val(sd.req_mem)), Frac(1, 2))
     THEN <<"Too much memory requested">> ELSE <<>>)
    \o
    (IF ~IsNone(sd.avg_cpu) /\ FracLess(Val(sd.avg_cpu), Frac(75, 1))
     THEN <<"CPU usage is low">> ELSE <<>>)

\* a warning computation that asks the gateway for the peak again
GetWarningsRequery ==
    /\ pc = "lustre"
    /\ calls' = IF influxquery THEN Append(calls, "get_max_mem") ELSE calls
    /\ IF WarningsFault(summary_data)
       THEN Fail("ZeroDivisionError") /\ UNCHANGED summary_data
       ELSE /\ summary_data' =
                [summary_data EXCEPT !.warnings = Some(get_warnings(summary_data))]
            /\ pc' = "constructed"
            /\ fault' = fault
    /\ UNCHANGED <<job_id, influxquery, reads, jobs, raw_id, db_data,
                   influxid, finished, lustre_data, lines, report>>

\* lines 34-37
GetWarnings ==
    /\ pc = "lustre"
    /\ IF WarningsFault(summary_data)
       THEN Fail("ZeroDivisionError") /\ UNCHANGED summary_data
       ELSE /\ summary_data' =
                [summary_data EXCEPT !.warnings = Some(get_warnings(summary_data))]
            /\ pc' = "constructed"
            /\ fault' = fault
    /\ UNCHANGED <<job_id, influxquery, calls, reads, jobs, raw_id, db_data,
                   influxid, finished, lustre_data, lines, report>>

----------------------------------------------------------------------------
(* The report: get_*_summary and get_full_summary.  The formatting helpers *)
(* of utils and tabulate are external: what they return is an input, a     *)
(* record u of texts without line breaks.  A text of several lines is the  *)
(* sequence of its lines, so s.split("\n") is the sequence itself and      *)
(* "\n".join(list).split("\n") is the concatenation of the items' lines.   *)

heading_width == 14

RECURSIVE Repeat(_, _)
Repeat(c, n) == IF n <= 0 THEN "" ELSE c \o Repeat(c, n - 1)

\* s.ljust(w)
Ljust(s, w) == s \o Repeat(" ", w - Len(s))

\* str(job_id) as a text
RECURSIVE Text(_)
Text(cs) == IF cs = <<>> THEN "" ELSE Head(cs) \o Text(Tail(cs))

Max(a, b) == IF a >= b THEN a ELSE b

RECURSIVE MaxLen(_)
MaxLen(ls) == IF ls = <<>> THEN 0 ELSE Max(Len(Head(ls)), MaxLen(Tail(ls)))

\* max_mem / req_mem, the argument of percentage_bar, divides by zero
MemSummaryFaults(sd) ==
    ~IsNone(sd.max_mem) /\ ~IsNone(sd.req_mem) /\ FracIsZero(Val(sd.req_mem))

get_mem_summary(sd, u) ==
    LET line == IF IsNone(sd.max_mem) \/ IsNone(sd.req_mem)
                THEN "No data available"
                ELSE u.bar \o " (" \o u.size \o " peak / " \o u.size \o ")"
    IN Ljust("Memory (RAM)", heading_width) \o line

get_cpu_summary(sd, u) ==
    LET line == IF IsNone(sd.avg_cpu) THEN "No data available"
                ELSE u.bar \o " average"
    IN Ljust("CPU", heading_width) \o line

\* elapsed_time / time_limit divides by zero
TimeSummaryFaults(sd) ==
    ~IsNone(sd.elapsed_time) /\ ~IsNone(sd.time_limit) /\ Val(sd.time_limit) = 0

get_time_summary(sd, u) ==
    LET line == IF IsNone(sd.elapsed_time) \/ IsNone(sd.time_limit)
                THEN "No data available"
                ELSE u.arrow \o " (" \o u.dur \o " / " \o u.dur \o ")"
    IN Ljust("Time", heading_width) \o line

\* the display path of a filesystem (lines 195-200)
fs_names(fs) == IF fs = "dagg" THEN "/fred" ELSE "/home"

\* the rows of the table, in the order of the mapping's keys
TableRows(stats, u) ==
    (IF "dagg" \in DOMAIN stats THEN <<fs_names("dagg") \o u.cells>> ELSE <<>>)
    \o (IF "home" \in DOMAIN stats THEN <<fs_names("home") \o u.cells>> ELSE <<>>)

\* the lines of get_lustre_summary(): it ends with a line break
get_lustre_summary(sd, u) ==
    LET body == IF IsNone(sd.lustre_stats) THEN <<"  No data available">>
                ELSE LET table == <<u.header, u.rule>> \o TableRows(Val(sd.lustre_stats), u)
                     IN [i \in 1..Len(table) |-> "  " \o table[i]]
    IN <<"Lustre Filesystem:">> \o body \o <<"">>

\* the lines of get_warnings_summary(): it ends with a line break
get_warnings_summary(sd) ==
    LET ws == sd.warnings
    IN IF IsNone(ws) \/ Len(Val(ws)) = 0 THEN <<"", "">>
       ELSE <<"Warnings:">> \o [i \in 1..Len(Val(ws)) |-> "  - " \o Val(ws)[i]] \o <<"">>

\* the lines of s.strip("\n"), for the lines ls of s
RECURSIVE StripNewlines(_)
StripNewlines(ls) ==
    IF Len(ls) <= 1 THEN ls
    ELSE IF Head(ls) = "" THEN StripNewlines(Tail(ls))
    ELSE IF ls[Len(ls)] = "" THEN StripNewlines(SubSeq(ls, 1, Len(ls) - 1))
    ELSE ls

Title(jid, sd) == "Job Summary: " \o Text(jid) \o " (" \o Val(sd.state) \o ")"

\* a top border that forgets the extra dash of an odd padding
FramedEvenDashes(ls, title) ==
    LET max_len == Max(MaxLen(ls), Len(title))
        ndash == max_len - Len(title)
        ldashes == Repeat("-", ndash \div 2)
        rdashes == Repeat("-", ndash \div 2)
        title_line == "+" \o ldashes \o " " \o title \o " " \o rdashes \o "+"
        bottom_border == "+" \o Repeat("-", max_len + 2) \o "+"
    IN <<title_line>>
       \o [i \in 1..Len(ls) |-> "| " \o Ljust(ls[i], max_len) \o " |"]
       \o <<bottom_border>>

\* lines 316-333: the title line, the content lines in bars, the bottom border
Framed(ls, title) ==
    LET max_len == Max(MaxLen(ls), Len(title))
        ndash == max_len - Len(title)
        ldashes == Repeat("-", ndash \div 2)
        rdashes == Repeat("-", ndash \div 2) \o (IF ndash % 2 = 1 THEN "-" ELSE "")
        title_line == "+" \o ldashes \o " " \o title \o " " \o rdashes \o "+"
        bottom_border == "+" \o Repeat("-", max_len + 2) \o "+"
    IN <<title_line>>
       \o [i \in 1..Len(ls) |-> "| " \o Ljust(ls[i], max_len) \o " |"]
       \o <<bottom_border>>

\* get_full_summary, the helpers answering with one of Utils
GetFullSummary(Utils) ==
    /\ pc = "constructed"
    /\ IF MemSummaryFaults(summary_data) \/ TimeSummaryFaults(summary_data)
       THEN Fail("ZeroDivisionError") /\ UNCHANGED <<lines, report>>
       ELSE \E u \in Utils :
            LET summary_list ==
                    <<get_mem_summary(summary_data, u),
                      get_cpu_summary(summary_data, u),
                      get_time_summary(summary_data, u),
                      "">>
                    \o get_lustre_summary(summary_data, u)
                    \o get_warnings_summary(summary_data)
                ls == StripNewlines(summary_list)
            IN /\ lines' = ls
               /\ report' = Framed(ls, Title(job_id, summary_data))
               /\ pc' = "rendered"
               /\ fault' = fault
    /\ UNCHANGED <<job_id, influxquery, calls, reads, jobs, raw_id, db_data,
                   influxid, finished, summary_data, lustre_data>>

----------------------------------------------------------------------------
(* Initial states *)

EmptySummary ==
    [state |-> None, req_mem |-> None, max_mem |-> None, elapsed_time |-> None,
     time_limit |-> None, avg_cpu |-> None, lustre_stats |-> None,
     warnings |-> None]

\* JobSummary(job_id, influxquery) is being called with an identifier of Ids
Start(Ids) ==
    /\ job_id \in Ids
    /\ influxquery \in BOOLEAN
    /\ pc = "start"
    /\ calls = <<>>
    /\ reads = {}
    /\ jobs = None
    /\ raw_id = None
    /\ fault = "none"
    /\ db_data = None
    /\ influxid = <<>>
    /\ finished = FALSE
    /\ summary_data = EmptySummary
    /\ lustre_data = None
    /\ lines = <<>>
    /\ report = <<>>

\* n times the digit 1
Ones(n) == [i \in 1..n |-> "1"]

\* one identifier of each syntax, and one of none
SomeIds == {<<"1">>, <<"1", "_", "0">>, <<"1", "+", "1">>, <<"a">>}

\* the linkage fields of a record: no array, or array 1 with or without a task
Linkages == {<<None, None>>} \cup {<<Some(1), t>> : t \in {None} \cup {Some(k) : k \in TaskIds}}

\* the texts the formatting helpers return
LongTexts ==
    [bar |-> "[#####-----] 50.0%", arrow |-> "[====>-----] 50.0%",
     size |-> "1.0 MiB", dur |-> "0-00:00:30",
     header |-> "Path    Total Read    Total Write    Total IOPS",
     rule |-> "------  ------------  -------------  ------------",
     cells |-> "   1.0 KiB        2.0 KiB        3.0 K"]

ShortTexts ==
    [bar |-> "50%", arrow |-> "5%", size |-> "1M", dur |-> "30s",
     header |-> "Path", rule |-> "----", cells |-> " 1"]

\* one answer of get_lustre_jobstats with one sample in every field
DenseDicts ==
    {[oss |-> [read_bytes |-> [value |-> <<r>>], write_bytes |-> [value |-> <<w>>]],
      mds |-> [iops |-> [value |-> <<i>>]]] : r, w, i \in {1, 2}}

DenseResult == [fs \in {"dagg"} |-> CHOOSE d \in DenseDicts : TRUE]

----------------------------------------------------------------------------
(* Spec: the run of one report over every job state and linkage, with and  *)
(* without a gateway; the other fields of the record take one value each.  *)

MainRecords ==
    {[state |-> st, num_nodes |-> n, memory |-> 1,
      elapsed_time |-> Some(30), time_limit |-> 1,
      array_id |-> l[1], array_task_id |-> l[2],
      max_resident_memory |-> MiB, elapsed_cpu_time |-> 4, steps |-> <<3>>] :
        st \in States, n \in 0..MaxNodes, l \in Linkages}

MainMaxMem == {None, Some(Frac(MiB, 1))}
MainAvgCpu == {None, Some(Frac(50, 1))}
MainLustre ==
    {[fs \in {} |-> <<>>], DenseResult,
     [fs \in {"dagg"} |-> [oss |-> [read_bytes |-> [value |-> <<>>]]]]}

Init == Start(SomeIds)

Next ==
    \/ get_raw_id
    \/ JobLoad(MainRecords)
    \/ GetMaxMemBytes(MainMaxMem)
    \/ GetUserCpuPercentage(MainAvgCpu)
    \/ GetLustreStats(MainLustre)
    \/ GetWarnings
    \/ GetFullSummary({LongTexts})

Spec == Init /\ [][Next]_vars

----------------------------------------------------------------------------
(* SpecValues: the run of one report over the numeric fields of the record *)
(* and the gateway's answers, around the thresholds of get_warnings.       *)

\* byte counts at and just under MiB, MiB/2 and MiB/4, and zero
PeakBytes == {0} \cup UNION {{MiB \div k - 1, MiB \div k} : k \in {1, 2, 4}}

\* (elapsed_time, time_limit) of a record
Times == {<<None, 1>>, <<Some(30), 1>>, <<Some(30), 0>>}

FinishedValueRecords ==
    {[state |-> "COMPLETED", num_nodes |-> n, memory |-> m,
      elapsed_time |-> t[1], time_limit |-> t[2],
      array_id |-> None, array_task_id |-> None,
      max_resident_memory |-> p, elapsed_cpu_time |-> e, steps |-> st] :
        n \in 0..MaxNodes, m \in 0..MaxMemory, t \in Times, p \in PeakBytes,
        e \in {0, 4}, st \in StepLists({1, 2})}

\* a running job has no statistics yet
UnfinishedValueRecords ==
    {[state |-> "RUNNING", num_nodes |-> n, memory |-> m,
      elapsed_time |-> t[1], time_limit |-> t[2],
      array_id |-> None, array_task_id |-> None,
      max_resident_memory |-> 0, elapsed_cpu_time |-> 0, steps |-> <<>>] :
        n \in 0..MaxNodes, m \in 0..MaxMemory, t \in Times}

ValueRecords == FinishedValueRecords \cup UnfinishedValueRecords

ValueMaxMem == {None} \cup {Some(Frac(p, 1)) : p \in PeakBytes}
ValueAvgCpu == {None, Some(Frac(749, 10)), Some(Frac(75, 1)), Some(Frac(751, 10))}

InitValues == Start(SomeIds)

NextValues ==
    \/ get_raw_id
    \/ JobLoad(ValueRecords)
    \/ GetMaxMemBytes(ValueMaxMem)
    \/ GetUserCpuPercentage(ValueAvgCpu)
    \/ GetLustreStats({DenseResult})
    \/ GetWarnings
    \/ GetFullSummary({LongTexts})

SpecValues == InitValues /\ [][NextValues]_vars

----------------------------------------------------------------------------
(* SpecFrame: the run of one report over identifiers, states and helper    *)
(* texts of different lengths, so that either the title or a content line  *)
(* is the longest.                                                         *)

FrameIds == SomeIds \cup {Ones(9), Ones(10)}

FrameRecords ==
    {[state |-> st, num_nodes |-> 1, memory |-> 1,
      elapsed_time |-> Some(30), time_limit |-> 1,
      array_id |-> None, array_task_id |-> None,
      max_resident_memory |-> p, elapsed_cpu_time |-> 4, steps |-> <<c>>] :
        st \in {"RUNNING", "COMPLETED"}, p \in {0, MiB}, c \in {2, 3}}

FrameLustre ==
    {[fs \in {} |-> <<>>], DenseResult,
     [fs \in FsNames |-> CHOOSE d \in DenseDicts : TRUE]}

InitFrame == Start(FrameIds)

NextFrame ==
    \/ get_raw_id
    \/ JobLoad(FrameRecords)
    \/ GetMaxMemBytes(MainMaxMem)
    \/ GetUserCpuPercentage(MainAvgCpu)
    \/ GetLustreStats(FrameLustre)
    \/ GetWarnings
    \/ GetFullSummary({LongTexts, ShortTexts})

SpecFrame == InitFrame /\ [][NextFrame]_vars

----------------------------------------------------------------------------
(* SpecLustre: the run of one report over the answers of the filesystem    *)
(* query: any subset of the filesystems, at most one of them sparse (any   *)
(* FsDicts), the others dense.                                             *)

LustreResults(Names) ==
    {[fs \in {} |-> <<>>]}
    \cup UNION {{[fs \in D |-> IF fs = f THEN e ELSE d] :
                    f \in D, e \in FsDicts, d \in DenseDicts} :
                D \in SUBSET Names \ {{}}}

LustreRecords ==
    {[state |-> st, num_nodes |-> 1, memory |-> 1,
      elapsed_time |-> Some(30), time_limit |-> 1,
      array_id |-> None, array_task_id |-> None,
      max_resident_memory |-> MiB, elapsed_cpu_time |-> 4, steps |-> <<3>>] :
        st \in {"RUNNING", "COMPLETED"}}

InitLustre == Start(SomeIds)

NextLustre ==
    \/ get_raw_id
    \/ JobLoad(LustreRecords)
    \/ GetMaxMemBytes({None})
    \/ GetUserCpuPercentage({None})
    \/ GetLustreStats(LustreResults(FsNames))
    \/ GetWarnings
    \/ GetFullSummary({ShortTexts})

SpecLustre == InitLustre /\ [][NextLustre]_vars

----------------------------------------------------------------------------
(* SpecRawId: identifier resolution alone, over every identifier string of *)
(* at most MaxIdLen characters of IdChars.                                 *)

IdStrings == UNION {[1..n -> IdChars] : n \in 0..MaxIdLen}

InitRawId == Start(IdStrings) /\ influxquery = FALSE

SpecRawId == InitRawId /\ [][get_raw_id]_vars

----------------------------------------------------------------------------
(* Properties *)

Record == Val(db_data)

\* the unfinished states, as the specification lists them
Unfinished == Record.state \in {"PENDING", "RUNNING", "REQUEUED", "RESIZING", "SUSPENDED"}

\* get_max_mem_bytes has returned; get_user_cpu_percentage has returned
MaxMemDone == ~IsNone(summary_data.req_mem)
AvgCpuDone == ~IsNone(summary_data.time_limit)
\* get_lustre_stats has been entered
LustreEntered == AvgCpuDone /\ pc # "avg_cpu"
\* __init__ has returned
Constructed == ~IsNone(summary_data.warnings)

\* get_warnings has run: it returned, or it raised
WarningsRan == Constructed \/ (fault = "ZeroDivisionError" /\ ~Constructed)

SourcesOf(field) == {r[2] : r \in {x \in reads : x[1] = field}}

OneSource(field, query, done, value) ==
    IF ~done THEN SourcesOf(field) = {} /\ query \notin Range(calls)
    ELSE IF ~Unfinished
         THEN SourcesOf(field) = {"stats"} /\ query \notin Range(calls)
    ELSE IF influxquery
         THEN SourcesOf(field) = {"gateway"} /\ query \in Range(calls)
    ELSE SourcesOf(field) = {} /\ query \notin Range(calls) /\ IsNone(value)

\* C1: peak memory and average CPU each consult exactly one source, chosen by
\* the job state: the statistics alone for a finished job, the gateway alone
\* for an unfinished job with a gateway, and neither (the field is null) for
\* an unfinished job without one.
C1_OneSourcePerField ==
    ~IsNone(db_data) =>
        /\ OneSource("max_mem", "get_max_mem", MaxMemDone, summary_data.max_mem)
        /\ OneSource("avg_cpu", "get_avg_cpu", AvgCpuDone, summary_data.avg_cpu)

C1_Witness ==
    /\ pc = "rendered"
    /\ Record.state = "SUSPENDED"
    /\ influxquery
    /\ reads = {<<"max_mem", "gateway">>, <<"avg_cpu", "gateway">>}

\* C2: with a node count of zero, requested memory per node is exactly 0 and
\* the construction of the summary ends without a division by zero.
C2_ZeroNodesNoFault ==
    (~IsNone(db_data) /\ Record.num_nodes = 0) =>
        /\ MaxMemDone => Val(summary_data.req_mem).n = 0
        /\ ~(fault = "ZeroDivisionError" /\ ~Constructed)

\* the warnings the specification prescribes for peak p, request r and average a
PrescribedWarnings(p, r, a) ==
    (IF ~IsNone(p) /\ 2 * Val(p).n * r.d < r.n * Val(p).d
     THEN <<"Too much memory requested">> ELSE <<>>)
    \o (IF ~IsNone(a) /\ Val(a).n < 75 * Val(a).d
        THEN <<"CPU usage is low">> ELSE <<>>)

\* C3: with requested memory per node > 0, get_warnings returns exactly
\* "Too much memory requested" iff the peak is known and peak/requested < 0.5,
\* then "CPU usage is low" iff the average CPU is known and < 75.0.
C3_Warnings ==
    (WarningsRan /\ Val(summary_data.req_mem).n > 0) =>
        /\ Constructed
        /\ Val(summary_data.warnings) =
               PrescribedWarnings(summary_data.max_mem, Val(summary_data.req_mem),
                                  summary_data.avg_cpu)

C3_Witness ==
    /\ pc = "constructed"
    /\ ~IsNone(summary_data.max_mem)
    /\ 2 * Val(summary_data.max_mem).n * Val(summary_data.req_mem).d
           = Val(summary_data.req_mem).n * Val(summary_data.max_mem).d
    /\ Val(summary_data.req_mem).n > 0
    /\ Val(summary_data.warnings) = <<"CPU usage is low">>

\* an identifier get_raw_id resolves for no answer of the lookup but an
\* array form whose task is present
Numeric(s) == Len(s) > 0 /\ \A i \in 1..Len(s) : s[i] \in {"0", "1"}
Pieces(sep) == Split(job_id, sep)
PlainForm == Numeric(job_id)
HetForm == ~Contains(job_id, "_") /\ Len(Pieces("+")) = 2
               /\ Numeric(Pieces("+")[1]) /\ Numeric(Pieces("+")[2])
ArrayForm == Len(Pieces("_")) = 2 /\ Numeric(Pieces("_")[1]) /\ Numeric(Pieces("_")[2])

\* C4: an identifier that cannot be resolved fails with the not-found error
\* (KeyError) and with no other fault, and nothing is produced.
C4_OnlyNotFound ==
    pc = "failed" => fault = "KeyError" /\ IsNone(raw_id) /\ report = <<>>

TaskPresent(t) == \E i \in 1..Len(Val(jobs)) : Val(jobs)[i].array_task_id = Some(t)

\* C5: "A_T" resolves to the id of a record of the lookup whose task id is T
\* when there is one and fails with KeyError when there is none; a plain N
\* resolves to N and "H+O" to H+O, both without a lookup.
C5_Resolution ==
    pc # "start" =>
        /\ PlainForm => pc = "resolved" /\ raw_id = Some(IntOf(job_id)) /\ calls = <<>>
        /\ HetForm =>
               /\ pc = "resolved"
               /\ raw_id = Some(IntOf(Pieces("+")[1]) + IntOf(Pieces("+")[2]))
               /\ calls = <<>>
        /\ ArrayForm =>
               /\ calls = <<"Jobs.load">>
               /\ ~IsNone(jobs)
               /\ IF TaskPresent(IntOf(Pieces("_")[2]))
                  THEN /\ pc = "resolved"
                       /\ \E i \in 1..Len(Val(jobs)) :
                              /\ Val(jobs)[i].id = Val(raw_id)
                              /\ Val(jobs)[i].array_task_id = Some(IntOf(Pieces("_")[2]))
                  ELSE pc = "failed" /\ fault = "KeyError"

C5_Witness ==
    /\ pc = "resolved"
    /\ ArrayForm
    /\ Len(Val(jobs)) = MaxJobs
    /\ Val(jobs)[1].array_task_id = Some(IntOf(Pieces("_")[2]))
    /\ Val(jobs)[MaxJobs].array_task_id # Some(IntOf(Pieces("_")[2]))
    /\ raw_id = Some(Val(jobs)[1].id)

\* C6: the metrics id is "{array_id}_{array_task_id}" whenever the record
\* carries both, task id 0 included, and the user's string otherwise.
C6_MetricsId ==
    ~IsNone(db_data) =>
        influxid = IF ~IsNone(Record.array_id) /\ ~IsNone(Record.array_task_id)
                   THEN StrOfNat(Val(Record.array_id)) \o <<"_">>
                            \o StrOfNat(Val(Record.array_task_id))
                   ELSE job_id

\* the last sample of a field of a filesystem's answer, or 0 when the role,
\* the field, its "value" or every sample is missing
SampleOrZero(d, server, field) ==
    IF server \in DOMAIN d /\ field \in DOMAIN d[server]
          /\ "value" \in DOMAIN d[server][field]
          /\ Len(d[server][field]["value"]) > 0
    THEN d[server][field]["value"][Len(d[server][field]["value"])]
    ELSE 0

\* C7: for every answer of the filesystem query, get_lustre_stats returns,
\* with one entry per filesystem of the answer, each total the last sample
\* or 0 when the data is missing.
C7_LustreStats ==
    ~IsNone(lustre_data) =>
        /\ fault = "none"
        /\ ~IsNone(summary_data.lustre_stats)
        /\ LET data == Val(lustre_data)
               stats == Val(summary_data.lustre_stats)
           IN /\ DOMAIN stats = DOMAIN data
              /\ \A fs \in DOMAIN data :
                     /\ stats[fs].total_read = SampleOrZero(data[fs], "oss", "read_bytes")
                     /\ stats[fs].total_write = SampleOrZero(data[fs], "oss", "write_bytes")
                     /\ stats[fs].total_iops = SampleOrZero(data[fs], "mds", "iops")

\* the external calls a run has issued when it stands where it stands
ExpectedCalls ==
    (IF pc # "start" /\ Len(Pieces("_")) = 2 THEN <<"Jobs.load">> ELSE <<>>)
    \o (IF ~IsNone(raw_id) /\ pc # "resolved" THEN <<"Job.load">> ELSE <<>>)
    \o (IF ~IsNone(db_data) /\ Unfinished /\ influxquery /\ MaxMemDone
        THEN <<"get_max_mem">> ELSE <<>>)
    \o (IF ~IsNone(db_data) /\ Unfinished /\ influxquery /\ AvgCpuDone
        THEN <<"get_avg_cpu">> ELSE <<>>)
    \o (IF ~IsNone(db_data) /\ influxquery /\ LustreEntered
        THEN <<"get_lustre_jobstats">> ELSE <<>>)

\* C8: the external calls of a run are issued in the order array lookup, job
\* record fetch, peak memory, average CPU, filesystem statistics, each at most
\* once; none follows a failed resolution or fetch; the warnings and the
\* rendering issue none.
C8_CallOrder ==
    /\ calls = ExpectedCalls
    /\ IsNone(db_data) => Range(calls) \subseteq {"Jobs.load", "Job.load"}

C8_Witness ==
    /\ pc = "rendered"
    /\ calls = <<"Jobs.load", "Job.load", "get_max_mem", "get_avg_cpu",
                 "get_lustre_jobstats">>

ReportTitle == "Job Summary: " \o Text(job_id) \o " (" \o Record.state \o ")"

Longest(ns) == CHOOSE n \in ns : \A m \in ns : m <= n

ReportWidth == Longest({Len(lines[i]) : i \in 1..Len(lines)} \cup {Len(ReportTitle)})

\* C9: with W the longer of the longest content line and the title, every
\* line of the report is W + 4 long; the bottom border is '+', W + 2 dashes,
\* '+'; the top border holds the title between single spaces, with
\* floor((W - title)/2) dashes on its left and the rest on its right; a
\* content line is '| ', the line padded to W, ' |'.
C9_Frame ==
    pc = "rendered" =>
        LET W == ReportWidth
            pad == W - Len(ReportTitle)
        IN /\ Len(report) = Len(lines) + 2
           /\ \A i \in 1..Len(report) : Len(report[i]) = W + 4
           /\ report[Len(report)] = "+" \o Repeat("-", W + 2) \o "+"
           /\ report[1] = "+" \o Repeat("-", pad \div 2) \o " " \o ReportTitle
                              \o " " \o Repeat("-", pad - pad \div 2) \o "+"
           /\ \A i \in 1..Len(lines) :
                  report[i + 1] = "| " \o lines[i]
                                       \o Repeat(" ", W - Len(lines[i])) \o " |"

C9_Witness ==
    /\ pc = "rendered"
    /\ (ReportWidth - Len(ReportTitle)) % 2 = 1
    /\ Len(lines) > 6

Heading(name) == name \o Repeat(" ", 14 - Len(name))
NoData(name) == Heading(name) \o "No data available"

\* C10: rendering a constructed summary never faults, and each of the memory,
\* CPU and time lines is "No data available" exactly when one of its operands
\* is null, also when requested memory or the time limit is 0.
C10_RenderNeverFaults ==
    Constructed =>
        /\ fault = "none"
        /\ pc = "rendered" =>
               /\ lines[1] = NoData("Memory (RAM)")
                      <=> (IsNone(summary_data.max_mem) \/ IsNone(summary_data.req_mem))
               /\ lines[2] = NoData("CPU") <=> IsNone(summary_data.avg_cpu)
               /\ lines[3] = NoData("Time")
                      <=> (IsNone(summary_data.elapsed_time) \/ IsNone(summary_data.time_limit))

====
